---- MODULE Spec2Model ----
(***************************************************************************)
(* Model of the Advising Assistance Program (course planner).             *)
(*                                                                         *)
(* The repository holds two builds of ProjectTwo.cpp: the original        *)
(* artifact (plain struct, menu 1/2/3/9) and the enhanced artifact (class  *)
(* Course, Kahn topological sort, SQLite check, menu 1/2/3/4/5/9).  The    *)
(* variable `variant` says which build is running; everything else is the  *)
(* state of that process.                                                  *)
(*                                                                         *)
(* A std::string is a sequence of characters; a character is a one-letter  *)
(* TLA+ string, and the three bytes of the UTF-8 byte-order mark are       *)
(* written "EF", "BB", "BF".  `out` records the message lines a command's  *)
(* handler writes once its input has been read (the fixed menu text and    *)
(* the input prompts are not recorded).                                    *)
(***************************************************************************)
EXTENDS Integers, Sequences, FiniteSets, TLC

VARIABLES
    variant,    \* "original" | "enhanced": which ProjectTwo.cpp is running
    pc,         \* position of main: "menu", "loading", "sorting", "exited", "aborted"
    catalog,    \* main's catalog: function from course code to Course
    out,        \* lines written by the command in progress / last finished
    lastCmd,    \* the input lines the last menu command consumed
    fileRead,   \* loadCourses: the lines std::getline has delivered so far
    prevSize,   \* history: catalog.size() when the running loadCourses opened its file
    adj,        \* printRecommendedOrder: successor lists
    indegree,   \* printRecommendedOrder: remaining in-degree
    zero,       \* printRecommendedOrder: the std::set of ready codes
    order,      \* printRecommendedOrder: the order vector
    raw,        \* normalizer harness: the raw text handed to canonCode
    norm        \* normalizer harness: canonCode's result for raw

vars == <<variant, pc, catalog, out, lastCmd, fileRead, prevSize,
          adj, indegree, zero, order, raw, norm>>

(***************************************************************************)
(* Bounds of the model.                                                    *)
(***************************************************************************)
MaxStrLen == 4      \* longest raw text handed to canonCode in SpecCanon
MaxLines  == 3      \* most lines a data file holds

(***************************************************************************)
(* Characters.                                                             *)
(***************************************************************************)
\* The characters the model uses, in ascending byte value (what
\* std::string's operator< and std::sort compare).
AsciiOrder ==
    << " ", "#", ",", "-", "0", "1", "2", "3", "4", "5", "6", "7", "8", "9",
       "A", "B", "C", "D", "T", "X", "a", "b", "c", "x", "BB", "BF", "EF" >>

Chars == { AsciiOrder[i] : i \in 1..Len(AsciiOrder) }

Ord(c) == CHOOSE i \in 1..Len(AsciiOrder) : AsciiOrder[i] = c

Digits == { "0", "1", "2", "3", "4", "5", "6", "7", "8", "9" }
Upper  == { "A", "B", "C", "D", "T", "X" }
Lower  == { "a", "b", "c", "x" }

\* <cctype> in the "C" locale (the program never calls setlocale).
isspace(c) == c = " "
isalnum(c) == c \in Digits \cup Upper \cup Lower

\* Faulty variant: the character is kept as typed.
toupper_Keep(c) == c

toupper(c) ==
    CASE c = "a" -> "A"
      [] c = "b" -> "B"
      [] c = "c" -> "C"
      [] c = "x" -> "X"
      [] OTHER   -> c

\* std::string operator< : lexicographic on bytes, a proper prefix is smaller.
RECURSIVE LexLess(_, _)
LexLess(s, t) ==
    IF t = <<>> THEN FALSE
    ELSE IF s = <<>> THEN TRUE
    ELSE IF Head(s) # Head(t) THEN Ord(Head(s)) < Ord(Head(t))
    ELSE LexLess(Tail(s), Tail(t))

(***************************************************************************)
(* String helpers.                                                         *)
(***************************************************************************)
RECURSIVE ltrim(_)
ltrim(s) ==
    IF s # <<>> /\ isspace(Head(s)) THEN ltrim(Tail(s)) ELSE s

RECURSIVE rtrim(_)
rtrim(s) ==
    IF s # <<>> /\ isspace(s[Len(s)]) THEN rtrim(SubSeq(s, 1, Len(s) - 1)) ELSE s

trim(s) == rtrim(ltrim(s))

stripBOM(s) ==
    IF Len(s) >= 3 /\ s[1] = "EF" /\ s[2] = "BB" /\ s[3] = "BF"
    THEN SubSeq(s, 4, Len(s))
    ELSE s

\* The loop of canonCode: keep the alphanumeric characters, upper-cased.
RECURSIVE KeepAlnumUpper(_)
KeepAlnumUpper(s) ==
    IF s = <<>> THEN <<>>
    ELSE IF isalnum(Head(s))
         THEN <<toupper(Head(s))>> \o KeepAlnumUpper(Tail(s))
         ELSE KeepAlnumUpper(Tail(s))

canonCode(s) == KeepAlnumUpper(trim(stripBOM(s)))

\* std::getline(ss, field, ',') until the stream is exhausted: a trailing comma
\* yields no further field, an empty line yields no field at all.
RECURSIVE SplitOnComma(_, _)
SplitOnComma(rest, field) ==
    IF rest = <<>> THEN (IF field = <<>> THEN <<>> ELSE <<field>>)
    ELSE IF Head(rest) = "," THEN <<field>> \o SplitOnComma(Tail(rest), <<>>)
    ELSE SplitOnComma(Tail(rest), Append(field, Head(rest)))

splitCSV(line) ==
    LET parts == SplitOnComma(line, <<>>)
    IN  [i \in 1..Len(parts) |-> trim(stripBOM(parts[i]))]

(***************************************************************************)
(* Course and catalog.                                                     *)
(***************************************************************************)
EmptyCatalog == <<>>

\* Course::addPrereq / the prerequisite loop of the original loadCourses:
\* every field from the third on, normalized, empty results dropped.
RECURSIVE Prereqs(_, _)
Prereqs(fields, i) ==
    IF i > Len(fields) THEN <<>>
    ELSE LET p == canonCode(fields[i])
         IN  (IF p # <<>> THEN <<p>> ELSE <<>>) \o Prereqs(fields, i + 1)

\* Course c(fields[0], fields[1]) followed by the addPrereq loop.
MakeCourse(fields) ==
    [number  |-> canonCode(fields[1]),
     title   |-> fields[2],
     prereqs |-> Prereqs(fields, 3)]

\* Faulty variant: an existing entry is kept (insert/emplace instead of operator[]=).
StoreCourse_KeepFirst(cat, c) ==
    IF c.number \in DOMAIN cat THEN cat
    ELSE [k \in DOMAIN cat \cup {c.number} |-> IF k = c.number THEN c ELSE cat[k]]

\* catalog[c.number] = std::move(c)
StoreCourse(cat, c) ==
    [k \in DOMAIN cat \cup {c.number} |-> IF k = c.number THEN c ELSE cat[k]]

\* Faulty variant: the previous catalog is kept.
ClearCatalog_Keep(cat) == cat

\* catalog.clear()
ClearCatalog(cat) == EmptyCatalog

\* The blank/comment test at the top of the read loop.
IsBlankOrComment(line) ==
    LET check == trim(stripBOM(line))
    IN  check = <<>> \/ check[1] = "#"

\* Only the original artifact rejects a code that normalizes to empty.
RejectsEmptyCode(v) == v = "original"

\* One iteration of the while (std::getline(fin, line)) loop.
LoadLineInto(v, cat, line) ==
    IF IsBlankOrComment(line) THEN cat
    ELSE LET fields == splitCSV(line)
         IN  IF Len(fields) < 2 THEN cat
             ELSE LET c == MakeCourse(fields)
                  IN  IF RejectsEmptyCode(v) /\ c.number = <<>> THEN cat
                      ELSE StoreCourse(cat, c)

(***************************************************************************)
(* Inputs: data lines, file names, menu lines, detail queries.             *)
(***************************************************************************)
BOM == <<"EF", "BB", "BF">>
T1  == <<"T", "1">>
T2  == <<"T", "2">>

\* The lines a data file is made of.
LinePool ==
    { <<"A", ",", "T", "1">>,                                \* A,T1
      <<"a", "-", ",", "T", "2", ",", "B">>,                 \* a-,T2,B
      <<"B", ",", "T", "1", ",", "A", ",", " ", "a", ",", "C">>,  \* B,T1,A, a,C
      <<"B", ",", "T", "2", ",", "b">>,                      \* B,T2,b
      <<"C", ",", "T", "1", ",", "-", ",", "D">>,            \* C,T1,-,D
      <<"-", ",", "T", "1">>,                                \* -,T1
      BOM \o <<" ", "#", "A", ",", "T", "1">>,               \* <BOM> #A,T1
      <<"A">> }                                              \* A

\* File names typed at the load prompt: none, or the name of some file.
FileNames == { <<>>, <<" ">>, <<"x">> }

\* Lines typed at the menu prompt.
MenuInputs ==
    { <<"1">>, <<"2", " ">>, <<"3">>, <<"4">>, <<"5">>, <<"9">>,
      <<>>, <<"x">>, <<"7">>, <<"0", "1">>,
      <<"9", "9", "9", "9", "9", "9", "9", "9", "9", "9", "9">> }

\* Lines typed at the course-number prompt.
Queries == { <<"a">>, <<" ", "B">>, <<"c", "-">>, <<"D">>, <<"-">> }

(***************************************************************************)
(* Output lines.                                                           *)
(***************************************************************************)
Line(kind, code, title, items, n) ==
    [kind |-> kind, code |-> code, title |-> title, items |-> items, n |-> n]

Msg(kind) == Line(kind, <<>>, <<>>, <<>>, 0)

\* One prerequisite as the detail view shows it: how |-> "resolved" (code and
\* title), "unavailable" (code marked title unavailable) or "bare" (code only).
Item(code, title, how) == [code |-> code, title |-> title, how |-> how]

(***************************************************************************)
(* main: reading the menu selection.                                       *)
(***************************************************************************)
INT_MAX == 2147483647

\* c - '0'
DigitValue(c) == Ord(c) - Ord("0")

\* std::stoi on an all-digit string; -1 stands for std::out_of_range.
RECURSIVE stoiFrom(_, _)
stoiFrom(s, acc) ==
    IF s = <<>> THEN acc
    ELSE IF acc > (INT_MAX - DigitValue(Head(s))) \div 10 THEN -1
    ELSE stoiFrom(Tail(s), acc * 10 + DigitValue(Head(s)))

stoi(s) == stoiFrom(s, 0)

AllDigits(s) == \A i \in 1..Len(s) : s[i] \in Digits

\* The branch main takes for a line typed at the menu prompt.
DispatchOriginal(line) ==
    LET choiceStr == trim(line)
    IN  IF choiceStr = <<>> \/ ~AllDigits(choiceStr) THEN "invalid"
        ELSE LET choice == stoi(choiceStr)
             IN  CASE choice = -1 -> "throw"
                   [] choice = 1  -> "load"
                   [] choice = 2  -> "list"
                   [] choice = 3  -> "detail"
                   [] choice = 9  -> "exit"
                   [] OTHER       -> "invalid"

DispatchEnhanced(line) ==
    LET choice == trim(line)
    IN  CASE choice = <<"1">> -> "load"
          [] choice = <<"2">> -> "list"
          [] choice = <<"3">> -> "detail"
          [] choice = <<"4">> -> "order"
          [] choice = <<"5">> -> "db"
          [] choice = <<"9">> -> "exit"
          [] OTHER            -> "invalid"

Dispatch(v, line) ==
    IF v = "original" THEN DispatchOriginal(line) ELSE DispatchEnhanced(line)

(***************************************************************************)
(* Initial state: main has constructed an empty catalog.                   *)
(***************************************************************************)
Init ==
    /\ variant \in {"original", "enhanced"}
    /\ pc = "menu"
    /\ catalog = EmptyCatalog
    /\ out = <<>>
    /\ lastCmd = <<>>
    /\ fileRead = <<>>
    /\ prevSize = 0
    /\ adj = <<>>
    /\ indegree = <<>>
    /\ zero = {}
    /\ order = <<>>
    /\ raw = <<>>
    /\ norm = <<>>

sortVars  == <<adj, indegree, zero, order>>
canonVars == <<raw, norm>>

(***************************************************************************)
(* Menu option 1: load.                                                    *)
(***************************************************************************)
\* Original only: an empty file name is refused before loadCourses is called.
LoadNoFileName ==
    \E ch \in MenuInputs, fn \in FileNames :
        /\ pc = "menu"
        /\ Dispatch(variant, ch) = "load"
        /\ variant = "original"
        /\ trim(fn) = <<>>
        /\ out' = <<Msg("NoFileName")>>
        /\ lastCmd' = <<ch, fn>>
        /\ UNCHANGED <<variant, fileRead, prevSize, pc, catalog, sortVars, canonVars>>

\* loadCourses returns false: the stream did not open.  The empty name never
\* opens; whether another name opens is up to the file system.
LoadOpenFails ==
    \E ch \in MenuInputs, fn \in FileNames :
        /\ pc = "menu"
        /\ Dispatch(variant, ch) = "load"
        /\ variant = "original" => trim(fn) # <<>>
        /\ out' = <<Msg("OpenFailed")>>
        /\ lastCmd' = <<ch, fn>>
        /\ UNCHANGED <<variant, fileRead, prevSize, pc, catalog, sortVars, canonVars>>

\* loadCourses opened the file: the catalog is cleared and the read loop starts.
LoadOpen ==
    \E ch \in MenuInputs, fn \in FileNames :
        /\ pc = "menu"
        /\ Dispatch(variant, ch) = "load"
        /\ trim(fn) # <<>>
        /\ catalog' = ClearCatalog(catalog)
        /\ pc' = "loading"
        /\ out' = <<>>
        /\ lastCmd' = <<ch, fn>>
        /\ fileRead' = <<>>
        /\ prevSize' = Cardinality(DOMAIN catalog)
        /\ UNCHANGED <<variant, sortVars, canonVars>>

\* std::getline delivers the next line of the file.
LoadLine ==
    \E line \in LinePool :
        /\ pc = "loading"
        /\ Len(fileRead) < MaxLines
        /\ catalog' = LoadLineInto(variant, catalog, line)
        /\ fileRead' = Append(fileRead, line)
        /\ UNCHANGED <<variant, pc, out, lastCmd, prevSize, sortVars, canonVars>>

\* std::getline reports the end of the file: loadCourses returns true (its
\* locals are gone) and main prints the course count.
LoadEOF ==
    /\ pc = "loading"
    /\ pc' = "menu"
    /\ out' = <<Line("Loaded", <<>>, <<>>, <<>>, Cardinality(DOMAIN catalog))>>
    /\ fileRead' = <<>>
    /\ prevSize' = 0
    /\ UNCHANGED <<variant, catalog, lastCmd, sortVars, canonVars>>

(***************************************************************************)
(* Menu option 2: the sorted listing.                                      *)
(***************************************************************************)
\* *zero.begin(): the smallest string of a std::set.
MinCode(S) == CHOOSE x \in S : \A y \in S \ {x} : LexLess(x, y)

\* The orders in which a range-for may visit an unordered_map with keys S.
IterationOrders(S) ==
    { f \in [1..Cardinality(S) -> S] : \A i, j \in DOMAIN f : f[i] = f[j] => i = j }

\* x put in its place in an ascending vector.
RECURSIVE InsertSorted(_, _)
InsertSorted(sorted, x) ==
    IF sorted = <<>> THEN <<x>>
    ELSE IF LexLess(x, Head(sorted)) THEN <<x>> \o sorted
    ELSE <<Head(sorted)>> \o InsertSorted(Tail(sorted), x)

\* Faulty variant: the keys are left in the order the map was visited in.
SortedKeys_Unsorted(keys) == keys

\* keys after std::sort(keys.begin(), keys.end()): the ascending permutation
\* of the vector the range-for filled.
RECURSIVE SortedKeys(_)
SortedKeys(keys) ==
    IF keys = <<>> THEN <<>>
    ELSE InsertSorted(SortedKeys(Tail(keys)), Head(keys))

\* What printCourseList writes (both builds), the catalog being visited in
\* the order iter when the keys are gathered.
CourseListOutput(cat, iter) ==
    IF DOMAIN cat = {} THEN <<Msg("NoData")>>
    ELSE LET keys == SortedKeys(iter)
         IN  <<Msg("ListHeader")>> \o
             [i \in 1..Len(keys) |->
                 Line("ListItem", cat[keys[i]].number, cat[keys[i]].title, <<>>, 0)]

PrintCourseList ==
    \E ch \in MenuInputs, iter \in IterationOrders(DOMAIN catalog) :
        /\ pc = "menu"
        /\ Dispatch(variant, ch) = "list"
        /\ out' = CourseListOutput(catalog, iter)
        /\ lastCmd' = <<ch>>
        /\ UNCHANGED <<variant, fileRead, prevSize, pc, catalog, sortVars, canonVars>>

(***************************************************************************)
(* Menu option 3: the detail view of one course.                           *)
(***************************************************************************)
\* Original: each prerequisite is looked up; a hit shows code and title, a
\* miss shows the code marked "(title unavailable)".
PrereqItemsOriginal(cat, ps) ==
    [i \in 1..Len(ps) |->
        IF ps[i] \in DOMAIN cat
        THEN Item(cat[ps[i]].number, cat[ps[i]].title, "resolved")
        ELSE Item(ps[i], <<>>, "unavailable")]

\* Enhanced: each prerequisite is shown as its bare code.
PrereqItemsEnhanced(cat, ps) ==
    [i \in 1..Len(ps) |-> Item(ps[i], <<>>, "bare")]

CourseLines(c, items) ==
    << Line("Course", c.number, c.title, <<>>, 0),
       IF c.prereqs = <<>> THEN Msg("PrereqsNone")
       ELSE Line("Prereqs", <<>>, <<>>, items, 0) >>

SingleCourseOriginal(cat, userInputRaw) ==
    IF DOMAIN cat = {} THEN <<Msg("NoData")>>
    ELSE LET key == canonCode(userInputRaw)
         IN  IF key \notin DOMAIN cat
             THEN <<Line("NotFound", userInputRaw, <<>>, <<>>, 0)>>
             ELSE CourseLines(cat[key], PrereqItemsOriginal(cat, cat[key].prereqs))

SingleCourseEnhanced(cat, rawInput) ==
    LET key == canonCode(rawInput)
    IN  IF key \notin DOMAIN cat
        THEN <<Msg("NotFound")>>
        ELSE CourseLines(cat[key], PrereqItemsEnhanced(cat, cat[key].prereqs))

SingleCourseOutput(v, cat, q) ==
    IF v = "original" THEN SingleCourseOriginal(cat, q) ELSE SingleCourseEnhanced(cat, q)

PrintSingleCourse ==
    \E ch \in MenuInputs, q \in Queries :
        /\ pc = "menu"
        /\ Dispatch(variant, ch) = "detail"
        /\ out' = SingleCourseOutput(variant, catalog, q)
        /\ lastCmd' = <<ch, q>>
        /\ UNCHANGED <<variant, fileRead, prevSize, pc, catalog, sortVars, canonVars>>

(***************************************************************************)
(* Menu option 4 (enhanced): buildGraph and Kahn's algorithm.              *)
(***************************************************************************)
\* Faulty variant: every listed prerequisite counts towards the in-degree,
\* in the catalog or not.
RECURSIVE AddPrereqEdges_CountAll(_, _, _, _)
AddPrereqEdges_CountAll(g, cat, c, ps) ==
    IF ps = <<>> THEN g
    ELSE LET p == Head(ps)
             h == [adj      |-> IF p \in DOMAIN cat
                                THEN [g.adj EXCEPT ![p] = Append(@, c)]
                                ELSE g.adj,
                   indegree |-> [g.indegree EXCEPT ![c] = @ + 1]]
         IN  AddPrereqEdges_CountAll(h, cat, c, Tail(ps))

\* Faulty variant: a prerequisite listed twice is counted once in the
\* in-degree, while both edges are kept.
RECURSIVE AddPrereqEdges_CountOnce(_, _, _, _)
AddPrereqEdges_CountOnce(g, cat, c, ps) ==
    IF ps = <<>> THEN g
    ELSE LET p == Head(ps)
             h == IF p \in DOMAIN cat
                  THEN [adj      |-> [g.adj EXCEPT ![p] = Append(@, c)],
                        indegree |-> IF \E i \in 1..Len(g.adj[p]) : g.adj[p][i] = c
                                     THEN g.indegree
                                     ELSE [g.indegree EXCEPT ![c] = @ + 1]]
                  ELSE g
         IN  AddPrereqEdges_CountOnce(h, cat, c, Tail(ps))

\* The inner loop of buildGraph for course c: one edge p -> c and one
\* increment per listed prerequisite that is a catalog key.
RECURSIVE AddPrereqEdges(_, _, _, _)
AddPrereqEdges(g, cat, c, ps) ==
    IF ps = <<>> THEN g
    ELSE LET p == Head(ps)
             h == IF p \in DOMAIN cat
                  THEN [adj      |-> [g.adj EXCEPT ![p] = Append(@, c)],
                        indegree |-> [g.indegree EXCEPT ![c] = @ + 1]]
                  ELSE g
         IN  AddPrereqEdges(h, cat, c, Tail(ps))

RECURSIVE AddCourses(_, _, _)
AddCourses(g, cat, iter) ==
    IF iter = <<>> THEN g
    ELSE AddCourses(AddPrereqEdges(g, cat, Head(iter), cat[Head(iter)].prereqs),
                    cat, Tail(iter))

\* buildGraph, the catalog being visited in the order iter.
buildGraph(cat, iter) ==
    AddCourses([adj      |-> [k \in DOMAIN cat |-> <<>>],
                indegree |-> [k \in DOMAIN cat |-> 0]],
               cat, iter)

RecommendedOrderEmpty ==
    \E ch \in MenuInputs :
        /\ pc = "menu"
        /\ Dispatch(variant, ch) = "order"
        /\ DOMAIN catalog = {}
        /\ out' = <<Msg("NoData")>>
        /\ lastCmd' = <<ch>>
        /\ UNCHANGED <<variant, fileRead, prevSize, pc, catalog, sortVars, canonVars>>

\* printRecommendedOrder up to the while loop: the graph is built and the
\* codes of in-degree zero are put into the set.
RecommendedOrderStart ==
    \E ch \in MenuInputs, iter \in IterationOrders(DOMAIN catalog) :
        /\ pc = "menu"
        /\ Dispatch(variant, ch) = "order"
        /\ DOMAIN catalog # {}
        /\ LET g == buildGraph(catalog, iter)
           IN  /\ adj' = g.adj
               /\ indegree' = g.indegree
               /\ zero' = { k \in DOMAIN g.indegree : g.indegree[k] = 0 }
        /\ order' = <<>>
        /\ pc' = "sorting"
        /\ out' = <<>>
        /\ lastCmd' = <<ch>>
        /\ UNCHANGED <<variant, fileRead, prevSize, catalog, canonVars>>

\* Faulty variant: the largest ready code is taken.
PickReady_Largest(z) == CHOOSE x \in z : \A y \in z \ {x} : LexLess(y, x)

\* auto it = zero.begin(); std::string u = *it;
PickReady(z) == MinCode(z)

\* Faulty variant: a successor is made ready as soon as one edge is removed.
RECURSIVE Relax_Eager(_, _)
Relax_Eager(succs, st) ==
    IF succs = <<>> THEN st
    ELSE LET v == Head(succs)
             d == st.indegree[v] - 1
         IN  Relax_Eager(Tail(succs),
                         [indegree |-> [st.indegree EXCEPT ![v] = d],
                          zero     |-> st.zero \cup {v}])

\* for (auto& v : adj[u]) if (--indegree[v] == 0) zero.insert(v);
RECURSIVE Relax(_, _)
Relax(succs, st) ==
    IF succs = <<>> THEN st
    ELSE LET v == Head(succs)
             d == st.indegree[v] - 1
         IN  Relax(Tail(succs),
                   [indegree |-> [st.indegree EXCEPT ![v] = d],
                    zero     |-> IF d = 0 THEN st.zero \cup {v} ELSE st.zero])

\* One iteration of while (!zero.empty()).
SortStep ==
    /\ pc = "sorting"
    /\ zero # {}
    /\ LET u  == PickReady(zero)
           st == Relax(adj[u], [indegree |-> indegree, zero |-> zero \ {u}])
       IN  /\ order' = Append(order, u)
           /\ indegree' = st.indegree
           /\ zero' = st.zero
    /\ UNCHANGED <<variant, pc, catalog, out, lastCmd, fileRead, prevSize, adj, canonVars>>

\* Faulty variant: the warning is never printed.
CycleWarning_Never(ord, cat) == <<>>

\* if (order.size() != catalog.size()) print the warning
CycleWarning(ord, cat) ==
    IF Len(ord) # Cardinality(DOMAIN cat) THEN <<Msg("CycleWarning")>> ELSE <<>>

\* What printRecommendedOrder writes once the loop has ended.
OrderOutput(ord, cat) ==
    <<Msg("OrderHeader")>> \o
    [i \in 1..Len(ord) |-> Line("OrderItem", cat[ord[i]].number, cat[ord[i]].title, <<>>, i)] \o
    CycleWarning(ord, cat)

\* The loop has ended: the order is printed and the locals are destroyed.
SortFinish ==
    /\ pc = "sorting"
    /\ zero = {}
    /\ out' = OrderOutput(order, catalog)
    /\ pc' = "menu"
    /\ adj' = <<>>
    /\ indegree' = <<>>
    /\ zero' = {}
    /\ order' = <<>>
    /\ UNCHANGED <<variant, catalog, lastCmd, fileRead, prevSize, canonVars>>

(***************************************************************************)
(* Menu option 5 (enhanced), exit, and everything else.                    *)
(***************************************************************************)
\* testDatabaseConnection: sqlite3_open succeeds or fails.
TestDatabaseConnection ==
    \E ch \in MenuInputs, ok \in BOOLEAN :
        /\ pc = "menu"
        /\ Dispatch(variant, ch) = "db"
        /\ out' = <<Msg(IF ok THEN "DbConnected" ELSE "DbFailed")>>
        /\ lastCmd' = <<ch>>
        /\ UNCHANGED <<variant, fileRead, prevSize, pc, catalog, sortVars, canonVars>>

\* Option 9: running = false, main returns 0.
Exit ==
    \E ch \in MenuInputs :
        /\ pc = "menu"
        /\ Dispatch(variant, ch) = "exit"
        /\ out' = <<Msg("Goodbye")>>
        /\ pc' = "exited"
        /\ lastCmd' = <<ch>>
        /\ UNCHANGED <<variant, fileRead, prevSize, catalog, sortVars, canonVars>>

\* The invalid-option message; the loop goes round again.
InvalidOption ==
    \E ch \in MenuInputs :
        /\ pc = "menu"
        /\ Dispatch(variant, ch) = "invalid"
        /\ out' = <<Line("Invalid", trim(ch), <<>>, <<>>, 0)>>
        /\ lastCmd' = <<ch>>
        /\ UNCHANGED <<variant, fileRead, prevSize, pc, catalog, sortVars, canonVars>>

\* Original: std::stoi throws std::out_of_range, nothing catches it, and
\* std::terminate aborts the process.
StoiThrows ==
    \E ch \in MenuInputs :
        /\ pc = "menu"
        /\ Dispatch(variant, ch) = "throw"
        /\ out' = <<>>
        /\ pc' = "aborted"
        /\ lastCmd' = <<ch>>
        /\ UNCHANGED <<variant, fileRead, prevSize, catalog, sortVars, canonVars>>

Next ==
    \/ LoadNoFileName
    \/ LoadOpenFails
    \/ LoadOpen
    \/ LoadLine
    \/ LoadEOF
    \/ PrintCourseList
    \/ PrintSingleCourse
    \/ RecommendedOrderEmpty
    \/ RecommendedOrderStart
    \/ SortStep
    \/ SortFinish
    \/ TestDatabaseConnection
    \/ Exit
    \/ InvalidOption
    \/ StoiThrows

Spec == Init /\ [][Next]_vars

\* The same program with the while loop of printRecommendedOrder running on:
\* an iteration that can be taken is taken, and the report after the loop is
\* printed.
SpecSort == Spec /\ WF_vars(SortStep) /\ WF_vars(SortFinish)

(***************************************************************************)
(* The normalizer on its own: canonCode applied to every raw text of at    *)
(* most MaxStrLen characters, re-applied to its own result, and applied    *)
(* to texts that differ from one another by case or by characters that    *)
(* are not alphanumeric.                                                   *)
(***************************************************************************)
CanonAlphabet == { "a", "A", "1", " ", "-", "EF", "BB", "BF" }

RawTexts == UNION { [1..n -> CanonAlphabet] : n \in 0..MaxStrLen }

OtherCase(c) == CASE c = "a" -> "A" [] c = "A" -> "a" [] OTHER -> c

InitCanon ==
    /\ variant = "enhanced"
    /\ pc = "menu"
    /\ catalog = EmptyCatalog
    /\ out = <<>>
    /\ lastCmd = <<>>
    /\ fileRead = <<>>
    /\ prevSize = 0
    /\ adj = <<>>
    /\ indegree = <<>>
    /\ zero = {}
    /\ order = <<>>
    /\ raw \in RawTexts
    /\ norm = canonCode(raw)

progVars == <<variant, pc, catalog, out, lastCmd, fileRead, prevSize, sortVars>>

\* canonCode is handed its own result.
Renormalize ==
    /\ raw' = norm
    /\ norm' = canonCode(raw')
    /\ UNCHANGED progVars

\* canonCode is handed the text with one letter in the other case.
FlipCase ==
    \E i \in 1..Len(raw) :
        /\ OtherCase(raw[i]) # raw[i]
        /\ raw' = [raw EXCEPT ![i] = OtherCase(@)]
        /\ norm' = canonCode(raw')
        /\ UNCHANGED progVars

\* canonCode is handed the text with one more non-alphanumeric character.
InsertNonAlnum ==
    \E i \in 0..Len(raw), c \in { x \in CanonAlphabet : ~isalnum(x) } :
        /\ Len(raw) < MaxStrLen
        /\ raw' = SubSeq(raw, 1, i) \o <<c>> \o SubSeq(raw, i + 1, Len(raw))
        /\ norm' = canonCode(raw')
        /\ UNCHANGED progVars

\* canonCode is handed the text with one non-alphanumeric character fewer.
DeleteNonAlnum ==
    \E i \in 1..Len(raw) :
        /\ ~isalnum(raw[i])
        /\ raw' = SubSeq(raw, 1, i - 1) \o SubSeq(raw, i + 1, Len(raw))
        /\ norm' = canonCode(raw')
        /\ UNCHANGED progVars

NextCanon ==
    \/ Renormalize
    \/ FlipCase
    \/ InsertNonAlnum
    \/ DeleteNonAlnum

SpecCanon == InitCanon /\ [][NextCanon]_vars

(***************************************************************************)
(* Vocabulary of the properties.                                           *)
(***************************************************************************)
RangeOf(seq) == { seq[i] : i \in 1..Len(seq) }

\* The prerequisites of course c that are catalog keys.
InCatalogPrereqs(cat, c) == RangeOf(cat[c].prereqs) \cap DOMAIN cat

\* The codes printRecommendedOrder has emitted: the order vector while the
\* loop runs, the numbered lines of the report once it is printed.
OrderItems   == SelectSeq(out, LAMBDA l : l.kind = "OrderItem")
EmittedCodes == [i \in 1..Len(OrderItems) |-> OrderItems[i].code]
Emitted      == IF pc = "sorting" THEN order ELSE EmittedCodes

OrderReported == pc = "menu" /\ out # <<>> /\ out[1].kind = "OrderHeader"

\* The courses that depend, directly or through other courses, on one of S.
RECURSIVE DependentsOf(_, _)
DependentsOf(cat, S) ==
    LET T == S \cup { c \in DOMAIN cat : InCatalogPrereqs(cat, c) \cap S # {} }
    IN  IF T = S THEN S ELSE DependentsOf(cat, T)

OnCycle(cat, k) ==
    k \in DependentsOf(cat, { c \in DOMAIN cat : k \in InCatalogPrereqs(cat, c) })

Acyclic(cat) == \A k \in DOMAIN cat : ~OnCycle(cat, k)

\* On a cycle, or depending on a course that is.
Blocked(cat) == DependentsOf(cat, { k \in DOMAIN cat : OnCycle(cat, k) })

(***************************************************************************)
(* Properties.                                                             *)
(***************************************************************************)

\* C1: in the codes printRecommendedOrder emits (the partial output of a
\* cyclic catalog included), every prerequisite of a course that is a
\* catalog key stands at a strictly smaller position than the course.
C1_PrereqsPrecede ==
    \A i \in 1..Len(Emitted) :
        \A p \in InCatalogPrereqs(catalog, Emitted[i]) :
            \E j \in 1..(i - 1) : Emitted[j] = p

\* A course with two different in-catalog prerequisites has been printed.
C1_Witness ==
    /\ OrderReported
    /\ \E i \in 1..Len(Emitted) :
           Cardinality(InCatalogPrereqs(catalog, Emitted[i])) >= 2

\* C2: the printed order holds every catalog code, once each and without the
\* warning, exactly when the in-catalog prerequisite edges are acyclic;
\* otherwise it is shorter than the catalog, leaves out exactly the codes on
\* a cycle or depending on one, ends with the circular-dependency warning,
\* and main is back at the menu.
C2_CompleteIffAcyclic ==
    OrderReported =>
        LET n      == Cardinality(DOMAIN catalog)
            warned == \E i \in 1..Len(out) : out[i].kind = "CycleWarning"
        IN  /\ Len(EmittedCodes) = Cardinality(RangeOf(EmittedCodes))
            /\ RangeOf(EmittedCodes) = DOMAIN catalog \ Blocked(catalog)
            /\ (Len(EmittedCodes) = n) <=> Acyclic(catalog)
            /\ (~Acyclic(catalog)) => (Len(EmittedCodes) < n /\ out[Len(out)].kind = "CycleWarning")
            /\ Acyclic(catalog) => ~warned
            /\ Len(out) = 1 + Len(EmittedCodes) + (IF warned THEN 1 ELSE 0)

\* A self-prerequisite blocks one course and a course depending on it, while
\* another course is still printed, with the warning.
C2_Witness ==
    /\ OrderReported
    /\ \E k \in DOMAIN catalog : k \in InCatalogPrereqs(catalog, k)
    /\ Cardinality(Blocked(catalog)) = 2
    /\ Len(EmittedCodes) = 1
    /\ out[Len(out)].kind = "CycleWarning"

\* The codes that are ready once the first n emitted codes are out: not yet
\* emitted, every in-catalog prerequisite emitted.
ReadyAfter(n) ==
    LET done == { Emitted[j] : j \in 1..n }
    IN  { c \in DOMAIN catalog \ done : InCatalogPrereqs(catalog, c) \subseteq done }

\* C3: every emitted code is the lexicographically smallest of the codes
\* ready at that step, and the printed order stops only when no code is
\* ready; so the order is a function of the catalog's content alone,
\* whatever order the hash maps were visited in.
C3_SmallestReadyFirst ==
    /\ \A i \in 1..Len(Emitted) :
          /\ Emitted[i] \in ReadyAfter(i - 1)
          /\ \A y \in ReadyAfter(i - 1) \ {Emitted[i]} : LexLess(Emitted[i], y)
    /\ OrderReported => ReadyAfter(Len(Emitted)) = {}

\* The order A, C, B has been printed: C went before B although B sorts
\* first, because B was not ready.
C3_Witness ==
    /\ OrderReported
    /\ EmittedCodes = << <<"A">>, <<"C">>, <<"B">> >>

\* The branch the last menu command took ("none" before the first command).
LastBranch == IF lastCmd = <<>> THEN "none" ELSE Dispatch(variant, lastCmd[1])

\* The read loop run over a whole file, starting from the catalog cat.
RECURSIVE ReadAll(_, _, _)
ReadAll(v, cat, lines) ==
    IF lines = <<>> THEN cat
    ELSE ReadAll(v, LoadLineInto(v, cat, Head(lines)), Tail(lines))

\* C4: the catalog is empty until a load succeeds; while and when a load
\* whose file opened has read its lines, the catalog holds exactly what those
\* lines parse to from an empty catalog, nothing of an earlier load; and no
\* step other than that reading (a load that cannot open its file, a query,
\* an invalid selection, the end of the file) changes it.
C4_LoadReplacesCatalog ==
    /\ catalog = EmptyCatalog
    /\ [](pc = "loading" => catalog = ReadAll(variant, EmptyCatalog, fileRead))
    /\ [][pc' # "loading" => catalog' = catalog]_vars

\* A later load whose file does not define the courses the catalog held
\* before: three courses were loaded, then a file defining C alone was read.
C4_Witness ==
    /\ pc = "loading"
    /\ prevSize = 3
    /\ Len(fileRead) = 1
    /\ DOMAIN catalog = { <<"C">> }

\* The record a data line holds: its fields make a course, unless the line is
\* blank, a comment or has fewer than two fields.
IsRecord(line) == ~IsBlankOrComment(line) /\ Len(splitCSV(line)) >= 2

\* The lines of the file read that define code k.
LinesDefining(k) ==
    { i \in 1..Len(fileRead) :
        IsRecord(fileRead[i]) /\ canonCode(splitCSV(fileRead[i])[1]) = k }

\* C9: when a file's lines have been read, every catalog entry carries the
\* title and the whole prerequisite list of the LAST record read that defines
\* its code; earlier records for the same code leave nothing behind.
C9_LastRecordWins ==
    pc = "loading" =>
        \A k \in DOMAIN catalog :
            /\ LinesDefining(k) # {}
            /\ LET last   == CHOOSE i \in LinesDefining(k) :
                                 \A j \in LinesDefining(k) : j <= i
                   fields == splitCSV(fileRead[last])
               IN  /\ catalog[k].number = k
                   /\ catalog[k].title = fields[2]
                   /\ catalog[k].prereqs =
                          SelectSeq([i \in 1..(Len(fields) - 2) |-> canonCode(fields[i + 2])],
                                    LAMBDA c : c # <<>>)

\* A file defined code A twice, first with prerequisite B and then with none:
\* the entry has the second title and no prerequisite.
C9_Witness ==
    /\ pc = "loading"
    /\ Cardinality(LinesDefining(<<"A">>)) = 2
    /\ fileRead[1] = <<"a", "-", ",", "T", "2", ",", "B">>
    /\ catalog[<<"A">>].title = T1
    /\ catalog[<<"A">>].prereqs = <<>>

\* C10: canonCode's result holds only upper-case letters and digits and is
\* a fixed point of canonCode, and texts that differ only in letter case or
\* in characters that are not alphanumeric (spaces, byte-order mark,
\* punctuation) have the same result.
C10_CanonCode ==
    /\ [](/\ \A i \in 1..Len(norm) : norm[i] \in Upper \cup Digits
          /\ canonCode(norm) = norm)
    /\ [][norm' = norm]_vars

\* A byte-order mark followed by a lower-case letter normalizes to the one
\* upper-case letter.
C10_Witness ==
    /\ raw = <<"EF", "BB", "BF", "a">>
    /\ norm = <<"A">>

\* C5: a record whose first field normalizes to the empty code is skipped:
\* no catalog key and no stored course number is ever the empty string, and
\* the number of courses loaded is the number of distinct non-empty codes the
\* records read define.
C5_EmptyCodeSkipped ==
    /\ \A k \in DOMAIN catalog : k # <<>> /\ catalog[k].number # <<>>
    /\ pc = "loading" =>
          Cardinality(DOMAIN catalog) =
              Cardinality({ canonCode(splitCSV(fileRead[i])[1]) :
                              i \in { j \in 1..Len(fileRead) : IsRecord(fileRead[j]) } }
                          \ { <<>> })

\* C6: a sorted listing, a detail view (for any query) or a recommended
\* order asked of an empty catalog writes the empty-catalog message and
\* nothing else, and main is back at the menu.
C6_EmptyCatalogMessage ==
    (LastBranch \in {"list", "detail", "order"} /\ DOMAIN catalog = {}) =>
        (pc = "menu" /\ out = <<Msg("NoData")>>)

\* The numeral a line of digits stands for: the digits without leading zeros.
RECURSIVE Numeral(_)
Numeral(s) == IF s # <<>> /\ Head(s) = "0" THEN Numeral(Tail(s)) ELSE s

\* The numbers the menu of build v offers.
MenuNumbers(v) ==
    IF v = "original" THEN { <<"1">>, <<"2">>, <<"3">>, <<"9">> }
    ELSE { <<"1">>, <<"2">>, <<"3">>, <<"4">>, <<"5">>, <<"9">> }

\* A line that is none of the menu's selections: empty, not a number, or a
\* number (of any length) the menu does not offer.
NotASelection(v, line) ==
    LET t == trim(line)
    IN  t = <<>> \/ ~AllDigits(t) \/ Numeral(t) \notin MenuNumbers(v)

\* C7: a menu line that is no selection gets the invalid-option message and
\* the menu again, the catalog untouched; the process ends only by the exit
\* selection 9 (and then returns 0 from main).
C7_InvalidInputKeepsLooping ==
    /\ (lastCmd # <<>> /\ NotASelection(variant, lastCmd[1])) =>
          (pc = "menu" /\ Len(out) = 1 /\ out[1].kind = "Invalid")
    /\ pc \notin {"menu", "loading", "sorting"} =>
          (pc = "exited" /\ Numeral(trim(lastCmd[1])) = <<"9">>)

\* The detail view on screen, if any: the course shown and its items.
DetailShown == pc = "menu" /\ out # <<>> /\ out[1].kind = "Course"

\* C8: a course with a prerequisite code that is not a catalog key is in
\* the catalog, in the sorted listing and in the recommended order (the
\* missing code is in neither); its detail view shows the missing code
\* marked title-unavailable and every in-catalog prerequisite with that
\* course's title.
C8_DanglingPrerequisite ==
    /\ (pc = "menu" /\ out # <<>> /\ out[1].kind = "ListHeader") =>
          { out[i].code : i \in 2..Len(out) } = DOMAIN catalog
    /\ OrderReported =>
          /\ RangeOf(EmittedCodes) \subseteq DOMAIN catalog
          /\ \A c \in DOMAIN catalog :
                InCatalogPrereqs(catalog, c) = {} => c \in RangeOf(EmittedCodes)
    /\ (DetailShown /\ Len(out) = 2 /\ out[2].kind = "Prereqs") =>
          LET ps == catalog[out[1].code].prereqs
          IN  /\ Len(out[2].items) = Len(ps)
              /\ \A i \in 1..Len(ps) :
                    IF ps[i] \in DOMAIN catalog
                    THEN out[2].items[i] = Item(ps[i], catalog[ps[i]].title, "resolved")
                    ELSE out[2].items[i] = Item(ps[i], <<>>, "unavailable")

\* The sorted listing on screen, if any, and its item lines.
ListShown == pc = "menu" /\ out # <<>> /\ out[1].kind = "ListHeader"
ListItems == SelectSeq(out, LAMBDA l : l.kind = "ListItem")

\* C11: for a non-empty catalog printCourseList writes one line per catalog
\* entry, each the entry's code and title, the codes strictly ascending in
\* lexicographic order - whatever order the map was filled or visited in and
\* whatever the prerequisites are.
C11_ListSortedAndComplete ==
    ListShown =>
        /\ DOMAIN catalog # {}
        /\ Len(out) = 1 + Cardinality(DOMAIN catalog)
        /\ Len(ListItems) = Cardinality(DOMAIN catalog)
        /\ { ListItems[i].code : i \in 1..Len(ListItems) } = DOMAIN catalog
        /\ \A i \in 1..Len(ListItems) :
              ListItems[i].title = catalog[ListItems[i].code].title
        /\ \A i \in 1..(Len(ListItems) - 1) :
              LexLess(ListItems[i].code, ListItems[i + 1].code)

\* A, B, C are listed in that order although B lists C as a prerequisite (the
\* recommended order of this catalog is A, C, B).
C11_Witness ==
    /\ ListShown
    /\ [i \in 1..Len(ListItems) |-> ListItems[i].code] = << <<"A">>, <<"B">>, <<"C">> >>
    /\ <<"C">> \in RangeOf(catalog[<<"B">>].prereqs)

\* How often x stands in the sequence seq.
Count(seq, x) == Cardinality({ i \in 1..Len(seq) : seq[i] = x })

\* buildGraph has returned and no iteration of the sort loop has run yet.
GraphBuilt == pc = "sorting" /\ order = <<>>

\* C12: buildGraph gives the adjacency map and the in-degree map exactly the
\* catalog's keys; the in-degree of a course is the number of entries of its
\* prerequisite list that are catalog keys, each occurrence counted; a
\* course stands in a prerequisite's successor list as often as the
\* prerequisite stands in the course's list; prerequisites that are no
\* catalog key add no key, no edge and no in-degree.
C12_GraphMatchesCatalog ==
    GraphBuilt =>
        /\ DOMAIN adj = DOMAIN catalog
        /\ DOMAIN indegree = DOMAIN catalog
        /\ \A c \in DOMAIN catalog :
              indegree[c] =
                  Cardinality({ i \in 1..Len(catalog[c].prereqs) :
                                  catalog[c].prereqs[i] \in DOMAIN catalog })
        /\ \A p \in DOMAIN catalog :
              /\ RangeOf(adj[p]) \subseteq DOMAIN catalog
              /\ \A c \in DOMAIN catalog :
                    Count(adj[p], c) = Count(catalog[c].prereqs, p)

\* The graph of a catalog in which B lists A twice and C once, and C lists
\* only a code that is no catalog key: B has in-degree 3, A has B twice among
\* its successors, C has in-degree 0.
C12_Witness ==
    /\ GraphBuilt
    /\ DOMAIN catalog = { <<"A">>, <<"B">>, <<"C">> }
    /\ indegree[<<"B">>] = 3
    /\ adj[<<"A">>] = << <<"B">>, <<"B">> >>
    /\ catalog[<<"C">>].prereqs = << <<"D">> >>
    /\ indegree[<<"C">>] = 0

\* The entries of course k's prerequisite list that are catalog keys and
\* have not been emitted: the edges into k that are still to be decremented.
PendingEdges(k) ==
    { i \in 1..Len(catalog[k].prereqs) :
        catalog[k].prereqs[i] \in DOMAIN catalog \ RangeOf(order) }

\* While the loop runs: no in-degree is negative, no code stands twice in
\* the output, no emitted code is ready, the in-degree of a course is the
\* number of its edges still to be decremented, and the ready set holds the
\* courses not yet emitted whose in-degree is zero.
SortLoopInvariant ==
    pc = "sorting" =>
        /\ \A k \in DOMAIN indegree : indegree[k] >= 0
        /\ \A i, j \in 1..Len(order) : order[i] = order[j] => i = j
        /\ zero \cap RangeOf(order) = {}
        /\ \A k \in DOMAIN catalog : indegree[k] = Cardinality(PendingEdges(k))
        /\ zero = { k \in DOMAIN catalog \ RangeOf(order) : indegree[k] = 0 }

\* One iteration: a code leaves the ready set only into the output, and a
\* code that enters it was neither ready nor emitted and has just had its
\* last pending edge decremented.
SortLoopStep ==
    (pc = "sorting" /\ pc' = "sorting") =>
        /\ zero \ zero' \subseteq RangeOf(order') \ RangeOf(order)
        /\ \A v \in zero' \ zero :
              /\ v \notin RangeOf(order')
              /\ indegree[v] > 0
              /\ indegree'[v] = 0

\* The loop has ended on a catalog without a cycle: every course is emitted.
SortLoopDone ==
    pc = "sorting" /\ zero = {} /\ RangeOf(order) = DOMAIN catalog

\* C13: during the topological sort no remaining in-degree is negative and
\* each code enters the ready set and the output at most once, also when a
\* course lists the same in-catalog prerequisite several times; such a
\* course becomes ready exactly when the last of its duplicate edges has
\* been decremented, and on a catalog without a cycle the loop ends with
\* every course emitted.
C13_InDegreeAndTermination ==
    /\ []SortLoopInvariant
    /\ [][SortLoopStep]_vars
    /\ (pc = "sorting" /\ Acyclic(catalog)) ~> SortLoopDone

\* The loop has ended with A, C, B emitted, B listing A twice and C once.
C13_Witness ==
    /\ pc = "sorting"
    /\ zero = {}
    /\ order = << <<"A">>, <<"C">>, <<"B">> >>
    /\ Count(catalog[<<"B">>].prereqs, <<"A">>) = 2
    /\ Count(catalog[<<"B">>].prereqs, <<"C">>) = 1

====
